---- MODULE Spec2Model ----
(***************************************************************************)
(* Model of Python/arithmetique.py: elementary number-theory routines.     *)
(* Every function is a call on a single interpreter: pc is the position of *)
(* the call ("idle" before it, "loop"/"inner"/"scan" at a loop test,       *)
(* "done" after a return, "error" after an exception), loc holds the       *)
(* function's local variables, ret the returned object and err the message *)
(* of the exception raised.  A returned object carries its type:           *)
(* [int |-> v], [bool |-> v], [ints |-> v] for a tuple or list of          *)
(* integers, [pairs |-> v] for a tuple or list of pairs, and               *)
(* [none |-> TRUE] while nothing has been returned.                        *)
(***************************************************************************)
EXTENDS Integers, Sequences, FiniteSets, TLC

VARIABLES fn, args, pc, loc, ret, err

vars == <<fn, args, pc, loc, ret, err>>

----------------------------------------------------------------------------
(* Bounds of the explored inputs *)

MaxDiv == 5        \* mon_divmod: a, b in -1..MaxDiv
DivergeCap == 3    \* iterations explored of a mon_divmod call that never ends
MaxGcd == 6        \* pgcd, euclide_etendu: a, b in -MaxGcd..MaxGcd
MaxMod == 6        \* inverse_mod: a, n in -MaxMod..MaxMod
MaxCoef == 4       \* resoud_equation: a, b, c in -MaxCoef..MaxCoef
MaxSieve == 30     \* eratosthene: n in 2..MaxSieve
MaxFact == 30      \* factorise, plus_petit_diviseur(1): n up to MaxFact
MaxBase == 4       \* expo_mod_rapide: a in -MaxBase..MaxBase
MaxExp == 5        \* expo_mod_rapide: b in 0..MaxExp
MaxModulus == 5    \* expo_mod_rapide: n in 1..MaxModulus
MaxFermat == 7     \* est_premier_probable_fermat: n in 3..MaxFermat
MaxTries == 2      \* est_premier_probable_fermat: nbtentatives in 0..MaxTries

----------------------------------------------------------------------------
(* Python's integer built-ins *)

\* abs(x)
py_abs(x) == IF x < 0 THEN -x ELSE x

\* a // b for b # 0: the quotient rounded towards minus infinity
py_floordiv(a, b) == IF b > 0 THEN a \div b ELSE (-a) \div (-b)

\* a % b for b # 0: the remainder has the sign of the divisor b
py_mod(a, b) == IF b > 0 THEN a % b ELSE -((-a) % (-b))

\* divmod(a, b)
py_divmod(a, b) == [q |-> py_floordiv(a, b), r |-> py_mod(a, b)]

----------------------------------------------------------------------------
(* mon_divmod(a, b) *)

mon_divmod_init(a, b) == [q |-> 0, r |-> a]

mon_divmod_cond(s, b) == s.r >= b

mon_divmod_body(s, b) == [q |-> s.q + 1, r |-> s.r - b]

----------------------------------------------------------------------------
(* pgcd(a, b) *)

pgcd_init(a, b) == [a1 |-> py_abs(a), b1 |-> py_abs(b)]

pgcd_cond(s) == s.b1 # 0

pgcd_body(s) == [a1 |-> s.b1, b1 |-> py_mod(s.a1, s.b1)]

pgcd_result(s) == py_abs(s.a1)

RECURSIVE pgcd_loop(_)
pgcd_loop(s) == IF pgcd_cond(s) THEN pgcd_loop(pgcd_body(s)) ELSE s

pgcd(a, b) == pgcd_result(pgcd_loop(pgcd_init(a, b)))

----------------------------------------------------------------------------
(* euclide_etendu(a, b) *)

euclide_etendu_init(a, b) ==
    [r0 |-> a, r1 |-> b, u0 |-> 1, u1 |-> 0, v0 |-> 0, v1 |-> 1]

euclide_etendu_cond(s) == s.r1 # 0

euclide_etendu_body(s) ==
    LET qr == py_divmod(s.r0, s.r1)
    IN  [r0 |-> s.r1, r1 |-> qr.r,
         u0 |-> s.u1, u1 |-> s.u0 - qr.q * s.u1,
         v0 |-> s.v1, v1 |-> s.v0 - qr.q * s.v1]

\* mutant: the final "if r0 < 0" normalisation is left out
euclide_etendu_result_mutant(s) == <<s.r0, s.u0, s.v0>>

euclide_etendu_result(s) ==
    IF s.r0 < 0 THEN <<-s.r0, -s.u0, -s.v0>> ELSE <<s.r0, s.u0, s.v0>>

RECURSIVE euclide_etendu_loop(_)
euclide_etendu_loop(s) ==
    IF euclide_etendu_cond(s) THEN euclide_etendu_loop(euclide_etendu_body(s))
    ELSE s

euclide_etendu(a, b) ==
    euclide_etendu_result(euclide_etendu_loop(euclide_etendu_init(a, b)))

----------------------------------------------------------------------------
(* inverse_mod(a, n): the outcome of the call, a value or an AssertionError *)

\* mutant: the assertion d == 1 is left out
inverse_mod_unchecked(a, n) ==
    IF n = 0
    THEN [pc |-> "error", ret |-> [none |-> TRUE],
          err |-> "n ne doit pas etre nul"]
    ELSE [pc |-> "done", ret |-> [int |-> py_mod(euclide_etendu(a, n)[2], n)],
          err |-> ""]

\* mutant: u is returned in place of u % n
inverse_mod_unreduced(a, n) ==
    IF n = 0
    THEN [pc |-> "error", ret |-> [none |-> TRUE],
          err |-> "n ne doit pas etre nul"]
    ELSE LET duv == euclide_etendu(a, n)
         IN  IF duv[1] # 1
             THEN [pc |-> "error", ret |-> [none |-> TRUE],
                   err |-> "a non inversible modulo n"]
             ELSE [pc |-> "done", ret |-> [int |-> duv[2]], err |-> ""]

inverse_mod(a, n) ==
    IF n = 0
    THEN [pc |-> "error", ret |-> [none |-> TRUE],
          err |-> "n ne doit pas etre nul"]
    ELSE LET duv == euclide_etendu(a, n)
         IN  IF duv[1] # 1
             THEN [pc |-> "error", ret |-> [none |-> TRUE],
                   err |-> "a non inversible modulo n"]
             ELSE [pc |-> "done", ret |-> [int |-> py_mod(duv[2], n)],
                   err |-> ""]

----------------------------------------------------------------------------
(* resoud_equation(a, b, c), (a, b) # (0, 0) *)

\* mutant: the direction vector is (b1, a1) in place of (-b1, a1)
resoud_equation_mutant(a, b, c) ==
    LET d == pgcd(a, b)
        c1 == py_floordiv(c, d)
        r == py_mod(c, d)
    IN  IF r # 0
        THEN <<>>
        ELSE LET a1 == py_floordiv(a, d)
                 b1 == py_floordiv(b, d)
                 duv == euclide_etendu(a1, b1)
                 x0 == c1 * duv[2]
                 y0 == c1 * duv[3]
             IN  <<<<x0, y0>>, <<b1, a1>>>>

resoud_equation(a, b, c) ==
    LET d == pgcd(a, b)
        c1 == py_floordiv(c, d)
        r == py_mod(c, d)
    IN  IF r # 0
        THEN <<>>
        ELSE LET a1 == py_floordiv(a, d)
                 b1 == py_floordiv(b, d)
                 duv == euclide_etendu(a1, b1)
                 x0 == c1 * duv[2]
                 y0 == c1 * duv[3]
             IN  <<<<x0, y0>>, <<-b1, a1>>>>

----------------------------------------------------------------------------
(* eratosthene(n) *)

eratosthene_init(n) == [premiers |-> <<>>, barres |-> {}, p |-> 2, mp |-> 0, k |-> 0]

\* mutant: while p * p < n
eratosthene_cond_mutant(s, n) == s.p * s.p < n

\* while p * p <= n
eratosthene_cond(s, n) == s.p * s.p <= n

\* the body of the outer loop up to the test of the inner loop: an unmarked p
\* is recorded and its first multiple set, a marked p is stepped over
eratosthene_body(s, n) ==
    IF s.p \notin s.barres
    THEN [s EXCEPT !.premiers = Append(@, s.p), !.mp = s.p + s.p]
    ELSE [s EXCEPT !.p = @ + 1]

\* while mp <= n
eratosthene_inner_cond(s, n) == s.mp <= n

\* mutant: mp += p is left out
eratosthene_inner_body_mutant(s) == [s EXCEPT !.barres = @ \cup {s.mp}]

eratosthene_inner_body(s) ==
    [s EXCEPT !.barres = @ \cup {s.mp}, !.mp = @ + s.p]

\* after the inner loop: p += 1
eratosthene_inner_exit(s) == [s EXCEPT !.p = @ + 1]

\* for k in range(p, n + 1): first value of k
eratosthene_scan_init(s) == [s EXCEPT !.k = s.p]

eratosthene_scan_cond(s, n) == s.k < n + 1

eratosthene_scan_body(s) ==
    IF s.k \notin s.barres
    THEN [s EXCEPT !.premiers = Append(@, s.k), !.k = @ + 1]
    ELSE [s EXCEPT !.k = @ + 1]

----------------------------------------------------------------------------
(* factorise(n) *)

factorise_init(n) == [m |-> n, facteurs |-> <<>>, p |-> 2, alpha |-> 0]

factorise_cond(s) == s.m # 1

factorise_body(s) ==
    IF py_mod(s.m, s.p) = 0
    THEN [s EXCEPT !.alpha = @ + 1, !.m = py_floordiv(s.m, s.p)]
    ELSE [s EXCEPT !.facteurs = IF s.alpha # 0
                                THEN Append(@, <<s.p, s.alpha>>) ELSE @,
                   !.p = @ + 1,
                   !.alpha = 0]

\* mutant: the pending factor is not flushed after the loop
factorise_result_mutant(s) == s.facteurs

factorise_result(s) ==
    IF s.alpha # 0 THEN Append(s.facteurs, <<s.p, s.alpha>>) ELSE s.facteurs

----------------------------------------------------------------------------
(* plus_petit_diviseur1(n) and plus_petit_diviseur(n) *)

plus_petit_diviseur1_cond(s, n) == py_mod(n, s.d) # 0

plus_petit_diviseur1_body(s) == [d |-> s.d + 1]

plus_petit_diviseur_cond(s, n) == s.d * s.d <= n /\ py_mod(n, s.d) # 0

plus_petit_diviseur_body(s) == [d |-> s.d + 1]

plus_petit_diviseur_result(s, n) == IF s.d * s.d <= n THEN s.d ELSE n

----------------------------------------------------------------------------
(* expo_mod_rapide(a, b, n) *)

expo_mod_rapide_init(a, b) == [r |-> 1, s |-> a, k |-> b]

expo_mod_rapide_cond(st) == st.k # 0

expo_mod_rapide_body(st, n) ==
    [r |-> IF py_mod(st.k, 2) = 1 THEN py_mod(st.r * st.s, n) ELSE st.r,
     s |-> py_mod(st.s * st.s, n),
     k |-> py_floordiv(st.k, 2)]

RECURSIVE expo_mod_rapide_loop(_, _)
expo_mod_rapide_loop(st, n) ==
    IF expo_mod_rapide_cond(st)
    THEN expo_mod_rapide_loop(expo_mod_rapide_body(st, n), n)
    ELSE st

expo_mod_rapide(a, b, n) == expo_mod_rapide_loop(expo_mod_rapide_init(a, b), n).r

----------------------------------------------------------------------------
(* est_temoin_non_primalite(a, n) and est_premier_probable_fermat *)

est_temoin_non_primalite(a, n) ==
    pgcd(a, n) = 1 /\ expo_mod_rapide(a, n - 1, n) # 1

\* The module's global names: the module has no import statement outside a
\* docstring, so the name randrange used by est_premier_probable_fermat is
\* not bound when the function is called.
randrange_bound == FALSE

\* random.randrange(start, stop): the values it can return; an empty set
\* stands for the ValueError of an empty range
randrange(start, stop) == start..(stop - 1)

\* One element of any(est_temoin_non_primalite(randrange(2, n-1), n) for k in
\* range(nbtentatives)), the sampled value being x: the next position of the
\* call
est_premier_probable_fermat_body(s, x, n) ==
    IF est_temoin_non_primalite(x, n)
    THEN [pc |-> "done", ret |-> [bool |-> FALSE], k |-> s.k]
    ELSE [pc |-> "loop", ret |-> [none |-> TRUE], k |-> s.k + 1]

----------------------------------------------------------------------------
(* The calls *)

Init ==
    /\ fn = "none"
    /\ args = [a |-> 0]
    /\ pc = "idle"
    /\ loc = [q |-> 0]
    /\ ret = [none |-> TRUE]
    /\ err = ""

mon_divmod_call ==
    \E a \in -1..MaxDiv, b \in -1..MaxDiv :
        /\ pc = "idle"
        /\ fn' = "mon_divmod"
        /\ args' = [a |-> a, b |-> b]
        /\ loc' = mon_divmod_init(a, b)
        /\ pc' = "loop"
        /\ UNCHANGED <<ret, err>>

\* A call with b <= 0 and a >= b never leaves the loop: its iterations are
\* explored up to DivergeCap.  Calls with a >= 0 and b > 0 are never capped.
mon_divmod_iter ==
    /\ pc = "loop" /\ fn = "mon_divmod"
    /\ mon_divmod_cond(loc, args.b)
    /\ (args.b > 0 \/ loc.q < DivergeCap)
    /\ loc' = mon_divmod_body(loc, args.b)
    /\ UNCHANGED <<fn, args, pc, ret, err>>

mon_divmod_return ==
    /\ pc = "loop" /\ fn = "mon_divmod"
    /\ ~mon_divmod_cond(loc, args.b)
    /\ ret' = [ints |-> <<loc.q, loc.r>>]
    /\ pc' = "done"
    /\ UNCHANGED <<fn, args, loc, err>>

pgcd_call ==
    \E a \in -MaxGcd..MaxGcd, b \in -MaxGcd..MaxGcd :
        /\ pc = "idle"
        /\ fn' = "pgcd"
        /\ args' = [a |-> a, b |-> b]
        /\ loc' = pgcd_init(a, b)
        /\ pc' = "loop"
        /\ UNCHANGED <<ret, err>>

pgcd_iter ==
    /\ pc = "loop" /\ fn = "pgcd"
    /\ pgcd_cond(loc)
    /\ loc' = pgcd_body(loc)
    /\ UNCHANGED <<fn, args, pc, ret, err>>

pgcd_return ==
    /\ pc = "loop" /\ fn = "pgcd"
    /\ ~pgcd_cond(loc)
    /\ ret' = [int |-> pgcd_result(loc)]
    /\ pc' = "done"
    /\ UNCHANGED <<fn, args, loc, err>>

euclide_etendu_call ==
    \E a \in -MaxGcd..MaxGcd, b \in -MaxGcd..MaxGcd :
        /\ pc = "idle"
        /\ fn' = "euclide_etendu"
        /\ args' = [a |-> a, b |-> b]
        /\ loc' = euclide_etendu_init(a, b)
        /\ pc' = "loop"
        /\ UNCHANGED <<ret, err>>

euclide_etendu_iter ==
    /\ pc = "loop" /\ fn = "euclide_etendu"
    /\ euclide_etendu_cond(loc)
    /\ loc' = euclide_etendu_body(loc)
    /\ UNCHANGED <<fn, args, pc, ret, err>>

euclide_etendu_return ==
    /\ pc = "loop" /\ fn = "euclide_etendu"
    /\ ~euclide_etendu_cond(loc)
    /\ ret' = [ints |-> euclide_etendu_result(loc)]
    /\ pc' = "done"
    /\ UNCHANGED <<fn, args, loc, err>>

inverse_mod_call ==
    \E a \in -MaxMod..MaxMod, n \in -MaxMod..MaxMod :
        /\ pc = "idle"
        /\ fn' = "inverse_mod"
        /\ args' = [a |-> a, n |-> n]
        /\ pc' = inverse_mod(a, n).pc
        /\ ret' = inverse_mod(a, n).ret
        /\ err' = inverse_mod(a, n).err
        /\ UNCHANGED loc

resoud_equation_call ==
    \E a \in -MaxCoef..MaxCoef, b \in -MaxCoef..MaxCoef, c \in -MaxCoef..MaxCoef :
        /\ pc = "idle"
        /\ <<a, b>> # <<0, 0>>
        /\ fn' = "resoud_equation"
        /\ args' = [a |-> a, b |-> b, c |-> c]
        /\ ret' = [pairs |-> resoud_equation(a, b, c)]
        /\ pc' = "done"
        /\ UNCHANGED <<loc, err>>

eratosthene_call ==
    \E n \in 2..MaxSieve :
        /\ pc = "idle"
        /\ fn' = "eratosthene"
        /\ args' = [n |-> n]
        /\ loc' = eratosthene_init(n)
        /\ pc' = "loop"
        /\ UNCHANGED <<ret, err>>

eratosthene_iter ==
    /\ pc = "loop" /\ fn = "eratosthene"
    /\ eratosthene_cond(loc, args.n)
    /\ loc' = eratosthene_body(loc, args.n)
    /\ pc' = IF loc.p \notin loc.barres THEN "inner" ELSE "loop"
    /\ UNCHANGED <<fn, args, ret, err>>

eratosthene_inner_iter ==
    /\ pc = "inner" /\ fn = "eratosthene"
    /\ eratosthene_inner_cond(loc, args.n)
    /\ loc' = eratosthene_inner_body(loc)
    /\ UNCHANGED <<fn, args, pc, ret, err>>

eratosthene_inner_done ==
    /\ pc = "inner" /\ fn = "eratosthene"
    /\ ~eratosthene_inner_cond(loc, args.n)
    /\ loc' = eratosthene_inner_exit(loc)
    /\ pc' = "loop"
    /\ UNCHANGED <<fn, args, ret, err>>

eratosthene_scan_start ==
    /\ pc = "loop" /\ fn = "eratosthene"
    /\ ~eratosthene_cond(loc, args.n)
    /\ loc' = eratosthene_scan_init(loc)
    /\ pc' = "scan"
    /\ UNCHANGED <<fn, args, ret, err>>

eratosthene_scan_iter ==
    /\ pc = "scan" /\ fn = "eratosthene"
    /\ eratosthene_scan_cond(loc, args.n)
    /\ loc' = eratosthene_scan_body(loc)
    /\ UNCHANGED <<fn, args, pc, ret, err>>

eratosthene_return ==
    /\ pc = "scan" /\ fn = "eratosthene"
    /\ ~eratosthene_scan_cond(loc, args.n)
    /\ ret' = [ints |-> loc.premiers]
    /\ pc' = "done"
    /\ UNCHANGED <<fn, args, loc, err>>

factorise_call ==
    \E n \in 1..MaxFact :
        /\ pc = "idle"
        /\ fn' = "factorise"
        /\ args' = [n |-> n]
        /\ loc' = factorise_init(n)
        /\ pc' = "loop"
        /\ UNCHANGED <<ret, err>>

factorise_iter ==
    /\ pc = "loop" /\ fn = "factorise"
    /\ factorise_cond(loc)
    /\ loc' = factorise_body(loc)
    /\ UNCHANGED <<fn, args, pc, ret, err>>

factorise_return ==
    /\ pc = "loop" /\ fn = "factorise"
    /\ ~factorise_cond(loc)
    /\ ret' = [pairs |-> factorise_result(loc)]
    /\ pc' = "done"
    /\ UNCHANGED <<fn, args, loc, err>>

plus_petit_diviseur1_call ==
    \E n \in 2..MaxFact :
        /\ pc = "idle"
        /\ fn' = "plus_petit_diviseur1"
        /\ args' = [n |-> n]
        /\ loc' = [d |-> 2]
        /\ pc' = "loop"
        /\ UNCHANGED <<ret, err>>

plus_petit_diviseur1_iter ==
    /\ pc = "loop" /\ fn = "plus_petit_diviseur1"
    /\ plus_petit_diviseur1_cond(loc, args.n)
    /\ loc' = plus_petit_diviseur1_body(loc)
    /\ UNCHANGED <<fn, args, pc, ret, err>>

plus_petit_diviseur1_return ==
    /\ pc = "loop" /\ fn = "plus_petit_diviseur1"
    /\ ~plus_petit_diviseur1_cond(loc, args.n)
    /\ ret' = [int |-> loc.d]
    /\ pc' = "done"
    /\ UNCHANGED <<fn, args, loc, err>>

plus_petit_diviseur_call ==
    \E n \in 2..MaxFact :
        /\ pc = "idle"
        /\ fn' = "plus_petit_diviseur"
        /\ args' = [n |-> n]
        /\ loc' = [d |-> 2]
        /\ pc' = "loop"
        /\ UNCHANGED <<ret, err>>

plus_petit_diviseur_iter ==
    /\ pc = "loop" /\ fn = "plus_petit_diviseur"
    /\ plus_petit_diviseur_cond(loc, args.n)
    /\ loc' = plus_petit_diviseur_body(loc)
    /\ UNCHANGED <<fn, args, pc, ret, err>>

plus_petit_diviseur_return ==
    /\ pc = "loop" /\ fn = "plus_petit_diviseur"
    /\ ~plus_petit_diviseur_cond(loc, args.n)
    /\ ret' = [int |-> plus_petit_diviseur_result(loc, args.n)]
    /\ pc' = "done"
    /\ UNCHANGED <<fn, args, loc, err>>

expo_mod_rapide_call ==
    \E a \in -MaxBase..MaxBase, b \in 0..MaxExp, n \in 1..MaxModulus :
        /\ pc = "idle"
        /\ fn' = "expo_mod_rapide"
        /\ args' = [a |-> a, b |-> b, n |-> n]
        /\ loc' = expo_mod_rapide_init(a, b)
        /\ pc' = "loop"
        /\ UNCHANGED <<ret, err>>

expo_mod_rapide_iter ==
    /\ pc = "loop" /\ fn = "expo_mod_rapide"
    /\ expo_mod_rapide_cond(loc)
    /\ loc' = expo_mod_rapide_body(loc, args.n)
    /\ UNCHANGED <<fn, args, pc, ret, err>>

expo_mod_rapide_return ==
    /\ pc = "loop" /\ fn = "expo_mod_rapide"
    /\ ~expo_mod_rapide_cond(loc)
    /\ ret' = [int |-> loc.r]
    /\ pc' = "done"
    /\ UNCHANGED <<fn, args, loc, err>>

est_premier_probable_fermat_call ==
    \E n \in 3..MaxFermat, nbtentatives \in 0..MaxTries :
        /\ pc = "idle"
        /\ fn' = "est_premier_probable_fermat"
        /\ args' = [n |-> n, nbtentatives |-> nbtentatives]
        /\ loc' = [k |-> 0]
        /\ pc' = "loop"
        /\ UNCHANGED <<ret, err>>

\* the next element of the generator: randrange(2, n-1) is evaluated first,
\* then est_temoin_non_primalite on the value drawn
est_premier_probable_fermat_iter ==
    /\ pc = "loop" /\ fn = "est_premier_probable_fermat"
    /\ loc.k < args.nbtentatives
    /\ IF ~randrange_bound
       THEN /\ pc' = "error"
            /\ err' = "NameError: name 'randrange' is not defined"
            /\ UNCHANGED <<loc, ret>>
       ELSE IF randrange(2, args.n - 1) = {}
       THEN /\ pc' = "error"
            /\ err' = "ValueError: empty range for randrange()"
            /\ UNCHANGED <<loc, ret>>
       ELSE \E x \in randrange(2, args.n - 1) :
                LET nxt == est_premier_probable_fermat_body(loc, x, args.n)
                IN  /\ pc' = nxt.pc
                    /\ ret' = nxt.ret
                    /\ loc' = [k |-> nxt.k]
                    /\ err' = err
    /\ UNCHANGED <<fn, args>>

\* the generator is exhausted: not any(...) is True
est_premier_probable_fermat_return ==
    /\ pc = "loop" /\ fn = "est_premier_probable_fermat"
    /\ ~(loc.k < args.nbtentatives)
    /\ ret' = [bool |-> TRUE]
    /\ pc' = "done"
    /\ UNCHANGED <<fn, args, loc, err>>

----------------------------------------------------------------------------

Next ==
    \/ mon_divmod_call \/ mon_divmod_iter \/ mon_divmod_return
    \/ pgcd_call \/ pgcd_iter \/ pgcd_return
    \/ euclide_etendu_call \/ euclide_etendu_iter \/ euclide_etendu_return
    \/ inverse_mod_call
    \/ resoud_equation_call
    \/ eratosthene_call \/ eratosthene_iter \/ eratosthene_inner_iter
    \/ eratosthene_inner_done \/ eratosthene_scan_start
    \/ eratosthene_scan_iter \/ eratosthene_return
    \/ factorise_call \/ factorise_iter \/ factorise_return
    \/ plus_petit_diviseur1_call \/ plus_petit_diviseur1_iter
    \/ plus_petit_diviseur1_return
    \/ plus_petit_diviseur_call \/ plus_petit_diviseur_iter
    \/ plus_petit_diviseur_return
    \/ expo_mod_rapide_call \/ expo_mod_rapide_iter \/ expo_mod_rapide_return
    \/ est_premier_probable_fermat_call \/ est_premier_probable_fermat_iter
    \/ est_premier_probable_fermat_return

Spec == Init /\ [][Next]_vars

\* The interpreter keeps running a call that has a step to take.
FairSpec == Spec /\ WF_vars(Next)

----------------------------------------------------------------------------
(* Reference definitions used by the properties *)

Divides(d, x) == \E k \in -py_abs(x)..py_abs(x) : x = d * k

\* the greatest common divisor of a and b, (a, b) # (0, 0)
GcdRef(a, b) ==
    CHOOSE d \in 1..(py_abs(a) + py_abs(b)) :
        /\ Divides(d, a) /\ Divides(d, b)
        /\ \A e \in 1..(py_abs(a) + py_abs(b)) :
               (Divides(e, a) /\ Divides(e, b)) => e <= d

IsPrime(q) == q >= 2 /\ \A d \in 2..(q - 1) : q % d # 0

\* a^b by repeated multiplication
RECURSIVE NaivePow(_, _)
NaivePow(a, b) == IF b = 0 THEN 1 ELSE a * NaivePow(a, b - 1)

\* the product of p^alpha over a list of pairs (p, alpha)
RECURSIVE FactorProduct(_)
FactorProduct(f) ==
    IF f = <<>> THEN 1
    ELSE NaivePow(Head(f)[1], Head(f)[2]) * FactorProduct(Tail(f))

\* the functions with a loop
LoopFns ==
    {"mon_divmod", "pgcd", "euclide_etendu", "eratosthene", "factorise",
     "plus_petit_diviseur1", "plus_petit_diviseur", "expo_mod_rapide"}

\* the arguments of the call are outside the function's stated domain
OutsideDomain ==
    \/ fn = "mon_divmod" /\ (args.b <= 0 \/ args.a < 0)
    \/ fn \in {"pgcd", "euclide_etendu"} /\ <<args.a, args.b>> = <<0, 0>>
    \/ fn = "inverse_mod" /\ args.n = 0

----------------------------------------------------------------------------
\* C1: for (a, b) # (0, 0), of either sign or with one operand zero,
\* euclide_etendu(a, b) returns (d, u, v) with d >= 0, d = pgcd(a, b), the
\* greatest common divisor of a and b, and d = a*u + b*v.
C1_BezoutTriple ==
    (fn = "euclide_etendu" /\ pc = "done" /\ <<args.a, args.b>> # <<0, 0>>) =>
        /\ ret.ints[1] >= 0
        /\ ret.ints[1] = pgcd(args.a, args.b)
        /\ ret.ints[1] = GcdRef(args.a, args.b)
        /\ ret.ints[1] = args.a * ret.ints[2] + args.b * ret.ints[3]

\* a call with negative operands whose last remainder was negative
C1_Witness ==
    /\ fn = "euclide_etendu" /\ pc = "done"
    /\ args.a < 0 /\ args.b < 0 /\ loc.r0 < 0
    /\ ret.ints[1] > 1

----------------------------------------------------------------------------
\* C2: for n # 0, inverse_mod(a, n) returns u with (a*u) mod n = 1 mod n when
\* gcd(a, n) = 1, and otherwise returns nothing and fails with the
\* not-invertible error.
C2_InverseOrNotInvertible ==
    (fn = "inverse_mod" /\ pc # "idle" /\ args.n # 0) =>
        IF GcdRef(args.a, args.n) = 1
        THEN /\ pc = "done"
             /\ py_mod(args.a * ret.int, args.n) = py_mod(1, args.n)
        ELSE /\ pc = "error"
             /\ err = "a non inversible modulo n"
             /\ ret = [none |-> TRUE]

\* an inverse that is neither 0 nor 1, of a negative a
C2_Witness ==
    /\ fn = "inverse_mod" /\ pc = "done"
    /\ args.a < -1 /\ args.n > 2 /\ ret.int > 1

----------------------------------------------------------------------------
\* C3 as stated: for n # 0 of either sign and a coprime to n, the value r
\* returned by inverse_mod(a, n) satisfies 0 <= r < |n|.
C3_NormalizedToAbs ==
    (fn = "inverse_mod" /\ pc = "done") =>
        (0 <= ret.int /\ ret.int < py_abs(args.n))

\* C3 amended: the value r returned by inverse_mod(a, n) lies between 0 and
\* n: 0 <= r < n when n > 0, and n < r <= 0 when n < 0.
C3_NormalizedToSignOfN ==
    (fn = "inverse_mod" /\ pc = "done") =>
        IF args.n > 0 THEN 0 <= ret.int /\ ret.int < args.n
                      ELSE args.n < ret.int /\ ret.int <= 0

\* an inverse modulo a negative n that is negative
C3_Witness ==
    /\ fn = "inverse_mod" /\ pc = "done"
    /\ args.n < 0 /\ ret.int < 0

----------------------------------------------------------------------------
\* the solutions (x, y) of a*x + b*y = c with |x|, |y| <= MaxCoef + 2
BoxSolutions(a, b, c) ==
    {xy \in (-(MaxCoef + 2)..(MaxCoef + 2)) \X (-(MaxCoef + 2)..(MaxCoef + 2)) :
        a * xy[1] + b * xy[2] = c}

\* C4: for (a, b) # (0, 0), resoud_equation(a, b, c) returns () exactly when
\* a*x + b*y = c has no integer solution, and otherwise ((x0, y0), (alpha,
\* beta)) such that every k gives a solution (x0 + alpha*k, y0 + beta*k) and
\* every solution is of that form for some k.
C4_SolutionSet ==
    (fn = "resoud_equation" /\ pc = "done") =>
        IF ret.pairs = <<>>
        THEN BoxSolutions(args.a, args.b, args.c) = {}
        ELSE LET x0 == ret.pairs[1][1]
                 y0 == ret.pairs[1][2]
                 alpha == ret.pairs[2][1]
                 beta == ret.pairs[2][2]
                 K == MaxCoef + 2 + py_abs(x0) + py_abs(y0)
             IN  /\ \A k \in -K..K :
                        args.a * (x0 + alpha * k) + args.b * (y0 + beta * k)
                            = args.c
                 /\ \A xy \in BoxSolutions(args.a, args.b, args.c) :
                        \E k \in -K..K :
                            xy = <<x0 + alpha * k, y0 + beta * k>>

\* a solvable equation with a negative coefficient, a gcd above 1 and a base
\* solution that is not the only one in the box
C4_Witness ==
    /\ fn = "resoud_equation" /\ pc = "done"
    /\ ret.pairs # <<>>
    /\ args.a < 0 /\ args.b > 0 /\ args.c # 0
    /\ pgcd(args.a, args.b) > 1
    /\ Cardinality(BoxSolutions(args.a, args.b, args.c)) > 2

----------------------------------------------------------------------------
\* C5: for n >= 2, eratosthene(n) returns a strictly ascending list whose
\* members are exactly the primes of 2..n.
C5_SievePrimes ==
    (fn = "eratosthene" /\ pc = "done") =>
        /\ \A i \in 1..(Len(ret.ints) - 1) : ret.ints[i] < ret.ints[i + 1]
        /\ {ret.ints[i] : i \in 1..Len(ret.ints)} = {q \in 2..args.n : IsPrime(q)}

\* a sieve whose first phase recorded 2, 3 and 5 and whose scan added primes
C5_Witness ==
    /\ fn = "eratosthene" /\ pc = "done"
    /\ args.n >= 25
    /\ loc.p = 6
    /\ Len(ret.ints) >= 9
    /\ 25 \in loc.barres

----------------------------------------------------------------------------
\* C6: for n >= 1, factorise(n) returns pairs (p, alpha) in strictly
\* ascending order of p, every p prime and every alpha >= 1, whose product of
\* p^alpha is n; factorise(1) is the empty list.
C6_Factorisation ==
    (fn = "factorise" /\ pc = "done") =>
        /\ \A i \in 1..(Len(ret.pairs) - 1) :
               ret.pairs[i][1] < ret.pairs[i + 1][1]
        /\ \A i \in 1..Len(ret.pairs) :
               IsPrime(ret.pairs[i][1]) /\ ret.pairs[i][2] >= 1
        /\ FactorProduct(ret.pairs) = args.n
        /\ (args.n = 1 => ret.pairs = <<>>)

\* a factorisation with two primes, one of them squared
C6_Witness ==
    /\ fn = "factorise" /\ pc = "done"
    /\ Len(ret.pairs) = 2 /\ ret.pairs[1][2] >= 2

----------------------------------------------------------------------------
\* C7: for b >= 0 and n > 0, including b = 0 and n = 1, expo_mod_rapide(a, b,
\* n) returns exactly (a^b) mod n as computed by repeated multiplication.
C7_ExactPowerMod ==
    (fn = "expo_mod_rapide" /\ pc = "done") =>
        ret.int = NaivePow(args.a, args.b) % args.n

----------------------------------------------------------------------------
\* C8: a call whose input is outside the stated domain (mon_divmod with
\* b <= 0, pgcd(0, 0), euclide_etendu(0, 0), inverse_mod(a, 0)) ends
\* immediately in a precondition-violation error: it neither enters its loop
\* nor returns a value.
C8_PreconditionError ==
    (pc # "idle" /\ OutsideDomain /\ (fn = "mon_divmod" => args.b <= 0)) =>
        pc = "error"

----------------------------------------------------------------------------
\* C9: for every prime n >= 3, every number of attempts and every choice of
\* the sampled bases, est_premier_probable_fermat(n, attempts) returns true.
C9_PrimeNeverRejected ==
    (/\ fn = "est_premier_probable_fermat"
     /\ IsPrime(args.n)
     /\ pc \in {"done", "error"}) =>
        (pc = "done" /\ ret.bool = TRUE)

----------------------------------------------------------------------------
\* C10: every call of a function with a loop whose arguments satisfy the
\* function's precondition eventually reaches its return.
C10_Termination ==
    (fn \in LoopFns /\ pc # "idle" /\ ~OutsideDomain) ~> (pc = "done")

\* a sieve that returned after marking more than ten composites
C10_Witness ==
    /\ fn = "eratosthene" /\ pc = "done"
    /\ Cardinality(loc.barres) > 10
    /\ loc.k = args.n + 1

====
